---------------------------- MODULE Spec2Model ----------------------------
(***************************************************************************)
(* The turn / reveal state machine of concentration.py: one MatchGame      *)
(* object driven by three kinds of Tk callbacks, each run to its end (or   *)
(* to the exception that aborts it) by the single-threaded event loop:     *)
(*   play     - <Button-1> on the canvas, while the handler is bound       *)
(*   restart  - the RESTART button's command                               *)
(*   fire     - the earliest timer callback scheduled with canvas.after    *)
(*                                                                         *)
(* Canvas items are numbered as Tk numbers them: the 16 rectangles are     *)
(* items 1..16, every image created later has a larger id.  Tk never       *)
(* reuses an id; the model hands out the smallest id that no canvas item,  *)
(* attribute or pending callback still holds, which no later step can tell *)
(* from a new one.                                                         *)
(*                                                                         *)
(* turns counts half turns: the source adds .5 per click, the model adds   *)
(* 1, so "turns % 1 == 0" is turns % 2 = 0 and "turns > 13" is             *)
(* turns > 2 * 13.                                                         *)
(***************************************************************************)
EXTENDS Integers, Sequences, FiniteSets

(* ------------------------------ constants ------------------------------ *)

NumTiles == 16
TileSize == 150
MinImages == 8
InitialScore == 100
FreeTurns == 13
Penalty == 10
delay == 1000
color == "blue"

(* -------------------------------- bounds ------------------------------- *)

\* .gif files in the image folder: MinImages..MaxGifs
MaxGifs == 9
\* the tiles the player clicks: 1..MaxTile
MaxTile == 2
\* random.shuffle draws from the identity and MaxShuffle transpositions
MaxShuffle == 1
\* side of the .gif images in pixels; an image of at least TileSize covers
\* the tile it lies on
ImageSize == 150
\* clicks per game, in half turns: in a long game, and in a short one
MaxTurns == 28
ShortTurns == 5
\* timer callbacks waiting in the event loop
MaxPending == 6
\* image items on the canvas at once
MaxImages == 2
\* after(0, ...) callbacks waiting at once
MaxDue == 1
\* delayed callbacks already due, and not yet run, when RESTART is pressed
MaxOverdue == 0
\* RESTART presses per run
MaxRestarts == 1
\* directory entries whose extension is not ".gif"
MaxOther == 1

Tiles == 1..NumTiles
ClickTiles == 1..MaxTile
ImageIds == (NumTiles + 1)..(NumTiles + MaxImages + MaxPending + 4)
Unset == 0

VARIABLES
    image_names,      \* self.image_names: the shuffled list, 2 * folder_images
    tags,             \* tile -> its tag, the image name assigned to it
    fill,             \* tile -> its fill colour
    images,           \* image items on the canvas: [id, at], at = tile under it
    score,            \* self.score
    turns,            \* self.turns, in half turns
    remaining_tiles,  \* self.remaining_tiles
    score_text,       \* self.score_text, what the label shows
    prev_image,       \* self.prev_image (Unset: the attribute does not exist)
    prev_name,        \* self.prev_name
    prev_tile,        \* self.prev_tile
    bound,            \* whether <Button-1> is bound to play
    pending,          \* timer callbacks, earliest first
    op,               \* the callback that ran last
    raised,           \* the exception that aborted it, "" if it returned
    matched,          \* tiles matched as two distinct equal tiles on this board
    pair,             \* the last completed pair: its images, its outcome,
                      \* its tiles and the fill colours at the second click
    restarts,         \* RESTART presses so far
    clicks,           \* clicks handled since the last RESTART press
    folder,           \* what the image_folder argument names on disk
    outcome           \* how main has gone: "" while it has not run

vars == <<image_names, tags, fill, images, score, turns, remaining_tiles,
          score_text, prev_image, prev_name, prev_tile, bound, pending,
          op, raised, matched, pair, restarts, clicks, folder, outcome>>

(* ------------------------------- helpers ------------------------------- *)

\* 2 * folder_images for a folder holding the names 1..n
Doubled(n) == [i \in 1..(2 * n) |-> ((i - 1) % n) + 1]

Swap(s, i, j) == [s EXCEPT ![i] = s[j], ![j] = s[i]]

\* random.shuffle(self.image_names): a permutation of the list in place
Shuffles(s) ==
    {s} \cup {Swap(s, k + 1, (Len(s) \div 2) + k) : k \in 1..MaxShuffle}

\* "for tile in find_all(): itemconfig(tile, tag=next(img_iterator))" over
\* the 16 rectangles, which come first in the display list
Assign(names) == [t \in Tiles |-> names[t]]

ScoreLabel(s) == [kind |-> "score", score |-> s, tries |-> 0]
GameOverLabel(s, n) == [kind |-> "over", score |-> s, tries |-> n]

Whole(t) == t % 2 = 0

Timer(ms, fn, arg) == [ms |-> ms, fn |-> fn, arg |-> arg]

HeldIds ==
    {i.id : i \in images} \cup {prev_image} \cup pair.imgs
      \cup {pending[k].arg[1] : k \in {j \in 1..Len(pending) :
                                        pending[j].fn = "disappear"}}

NoPair == [live |-> FALSE, imgs |-> {}, match |-> FALSE,
           tiles |-> {}, before |-> <<>>]

(* --------------------------- validate_images --------------------------- *)

\* a path that does not exist, a path that is not a directory, or a
\* directory with gifs entries of extension ".gif" (readable images) and
\* other entries of another extension
NoFolder == [kind |-> "missing", gifs |-> 0, other |-> 0]
PlainFile == [kind |-> "file", gifs |-> 0, other |-> 0]
Directory(g, o) == [kind |-> "dir", gifs |-> g, other |-> o]

Folders ==
    {NoFolder, PlainFile}
      \cup {Directory(g, o) : g \in 0..MaxGifs, o \in 0..MaxOther}

\* lines 233-243: the exception raised, or "" when the path is returned
validate_images(image_folder) ==
    IF image_folder.kind = "missing"
    THEN "ArgumentTypeError"
    ELSE IF image_folder.kind # "dir"
         THEN \* os.path.exists holds, os.listdir raises at line 237
              "NotADirectoryError"
         ELSE IF image_folder.gifs < MinImages
              THEN "ArgumentTypeError"
              ELSE ""

\* parse_args turns the ArgumentTypeError of a type function into the usage
\* error (exit status 2); any other exception but TypeError and ValueError
\* leaves it as raised
get_arguments(image_folder) ==
    LET e == validate_images(image_folder)
    IN  IF e = "ArgumentTypeError" THEN "usage" ELSE e

(* ------------------------------ __init__ ------------------------------- *)

Init ==
    /\ \E n \in MinImages..MaxGifs :
          image_names \in Shuffles(Doubled(n))
    /\ tags = Assign(image_names)
    /\ fill = [t \in Tiles |-> "yellow"]
    /\ images = {}
    /\ score = InitialScore
    /\ turns = 0
    /\ remaining_tiles = NumTiles
    /\ score_text = ScoreLabel(InitialScore)
    /\ prev_image = Unset
    /\ prev_name = Unset
    /\ prev_tile = Unset
    /\ bound = TRUE
    /\ pending = <<>>
    /\ op = "init"
    /\ raised = ""
    /\ matched = {}
    /\ pair = NoPair
    /\ restarts = 0
    /\ clicks = 0
    /\ folder = Directory(Len(image_names) \div 2, 0)
    /\ outcome = "started"

(* -------------------------------- play --------------------------------- *)

\* Deduct with the penalty added instead of subtracted
DeductAdds(t, s) == IF t > 2 * FreeTurns /\ Whole(t) THEN s + Penalty ELSE s

\* Deduct with the penalty charged on first clicks as well
DeductEveryClick(t, s) == IF t > 2 * FreeTurns THEN s - Penalty ELSE s

\* lines 135-138: the score after the click that makes the counter t
Deduct(t, s) == IF t > 2 * FreeTurns /\ Whole(t) THEN s - Penalty ELSE s

\* appear: the id of the image item create_image adds
appear == CHOOSE i \in ImageIds : i \notin HeldIds /\
              \A j \in ImageIds : j \notin HeldIds => i <= j

\* Scheduled with the images of a matched pair left on the canvas
ScheduledKeepsMatch(curr, tile, match, rem, s, t) ==
    (IF match
     THEN <<Timer(delay, "change_color", <<tile>>),
            Timer(delay, "change_color", <<prev_tile>>)>>
     ELSE <<Timer(delay, "disappear", <<curr>>),
            Timer(delay, "disappear", <<prev_image>>)>>)
    \o (IF rem = 0
        THEN <<Timer(delay, "set", <<s, t \div 2>>)>>
        ELSE <<Timer(delay, "bind", <<>>)>>)

\* lines 152-173: what the second click schedules, in order
Scheduled(curr, tile, match, rem, s, t) ==
    <<Timer(delay, "disappear", <<curr>>),
      Timer(delay, "disappear", <<prev_image>>)>>
    \o (IF match
        THEN <<Timer(delay, "change_color", <<tile>>),
               Timer(delay, "change_color", <<prev_tile>>)>>
        ELSE <<>>)
    \o (IF rem = 0
        THEN <<Timer(delay, "set", <<s, t \div 2>>)>>
        ELSE <<Timer(delay, "bind", <<>>)>>)

\* lines 152-153: remaining_tiles after a second click
Remaining(match, n) == IF match THEN n - 2 ELSE n

\* CURRENT is the topmost item under the pointer: the rectangle, unless an
\* image lies on it and covers it
Clickable(tile) ==
    ImageSize >= TileSize => \A i \in images : i.at # tile

\* a click on rectangle tile
PlayTile(tile) ==
    LET image_name == tags[tile]
        t == turns + 1
        s == Deduct(t, score)
        id == appear
        match == image_name = prev_name
        rem == Remaining(match, remaining_tiles)
    IN  /\ bound
        /\ turns < MaxTurns
        /\ Cardinality(images) < MaxImages
        /\ Clickable(tile)
        /\ Whole(t) => Len(pending) + 5 <= MaxPending
        /\ turns' = t
        /\ score' = s
        /\ images' = images \cup {[id |-> id, at |-> tile]}
        /\ IF ~Whole(t)
           THEN /\ prev_image' = id
                /\ prev_name' = image_name
                /\ prev_tile' = tile
                /\ pair' = NoPair
                /\ score_text' = IF s # score THEN ScoreLabel(s) ELSE score_text
                /\ UNCHANGED <<bound, remaining_tiles, pending, matched>>
           ELSE /\ bound' = FALSE
                /\ remaining_tiles' = rem
                /\ pending' = pending \o Scheduled(id, tile, match, rem, s, t)
                /\ pair' = [live |-> TRUE, imgs |-> {id, prev_image},
                            match |-> match, tiles |-> {tile, prev_tile},
                            before |-> fill]
                /\ matched' = IF match /\ tile # prev_tile
                                       /\ tags[tile] = tags[prev_tile]
                              THEN matched \cup {tile, prev_tile}
                              ELSE matched
                /\ score_text' = IF s # score THEN ScoreLabel(s) ELSE score_text
                /\ UNCHANGED <<prev_image, prev_name, prev_tile>>
        /\ op' = "play"
        /\ clicks' = clicks + 1
        /\ raised' = ""
        /\ UNCHANGED <<image_names, tags, fill, restarts, folder, outcome>>

\* a click on an image item lying on a tile: CURRENT is the image, whose
\* coords are one point, so appear's four-way unpacking raises ValueError
\* after the counter, the score and the binding have been updated
PlayImage ==
    LET t == turns + 1
        s == Deduct(t, score)
    IN  /\ bound
        /\ turns < MaxTurns
        /\ images # {}
        /\ turns' = t
        /\ score' = s
        /\ score_text' = IF s # score THEN ScoreLabel(s) ELSE score_text
        /\ bound' = (IF Whole(t) THEN FALSE ELSE bound)
        /\ pair' = NoPair
        /\ op' = "play"
        /\ clicks' = clicks + 1
        /\ raised' = "ValueError"
        /\ UNCHANGED <<image_names, tags, fill, images, remaining_tiles,
                       prev_image, prev_name, prev_tile, pending, matched,
                       restarts, folder, outcome>>

play == PlayImage \/ \E tile \in ClickTiles : PlayTile(tile)

(* ------------------------------- restart ------------------------------- *)

\* canvas.after(0, ...): due now, so behind every timer already due and
\* ahead of the others; p timers are ahead of it
AfterNow(q, cb, p) == SubSeq(q, 1, p) \o <<cb>> \o SubSeq(q, p + 1, Len(q))

\* the places after(0, ...) can take: behind the timers scheduled with 0,
\* which are due, and behind any prefix of the delayed ones
Places(q) ==
    {p \in 0..Len(q) :
        /\ \A k \in (p + 1)..Len(q) : q[k].ms # 0
        /\ Cardinality({k \in 1..p : q[k].ms # 0}) <= MaxOverdue}

restart ==
    /\ restarts < MaxRestarts
    /\ restarts' = restarts + 1
    /\ clicks' = 0
    /\ op' = "restart"
    /\ UNCHANGED <<folder, outcome>>
    /\ IF prev_image = Unset
       THEN \* line 103: the attribute is read before any click has set it
            /\ raised' = "AttributeError"
            /\ UNCHANGED <<image_names, tags, fill, images, score, turns,
                           remaining_tiles, score_text, prev_image, prev_name,
                           prev_tile, bound, pending, matched, pair>>
       ELSE /\ Len(pending) < MaxPending
            /\ Cardinality({k \in 1..Len(pending) : pending[k].ms = 0})
                  < MaxDue
            /\ \E p \in Places(pending) :
                  pending' = AfterNow(pending,
                                      Timer(0, "disappear", <<prev_image>>), p)
            \* line 105: no item carries the tag "image", nothing is deleted
            /\ image_names' \in Shuffles(image_names)
            /\ tags' = Assign(image_names')
            /\ fill' = [t \in Tiles |-> "yellow"]
            /\ matched' = {}
            /\ IF images # {}
               THEN \* find_all also yields the image items: at line 113 the
                    \* 17th item exhausts an iterator of 16 names, and with
                    \* more names left it is an image, which has no fill
                    /\ raised' = IF Len(image_names') = NumTiles
                                 THEN "StopIteration" ELSE "TclError"
                    /\ UNCHANGED <<score, turns, remaining_tiles, score_text,
                                   bound>>
               ELSE /\ raised' = ""
                    /\ score' = InitialScore
                    /\ turns' = 0
                    /\ remaining_tiles' = NumTiles
                    /\ score_text' = ScoreLabel(InitialScore)
                    /\ bound' = TRUE
            /\ UNCHANGED <<images, prev_image, prev_name, prev_tile, pair>>

(* --------------------------- timer callbacks --------------------------- *)

disappear(image_id) == {i \in images : i.id # image_id}

change_color(tile, c) == [fill EXCEPT ![tile] = c]

fire ==
    /\ pending # <<>>
    /\ LET cb == Head(pending)
       IN  /\ images' = IF cb.fn = "disappear"
                        THEN disappear(cb.arg[1]) ELSE images
           /\ fill' = IF cb.fn = "change_color"
                      THEN change_color(cb.arg[1], color) ELSE fill
           /\ score_text' = IF cb.fn = "set"
                            THEN GameOverLabel(cb.arg[1], cb.arg[2])
                            ELSE score_text
           /\ bound' = IF cb.fn = "bind" THEN TRUE ELSE bound
    /\ pending' = Tail(pending)
    /\ op' = "fire"
    /\ raised' = ""
    /\ UNCHANGED <<image_names, tags, score, turns, remaining_tiles,
                   prev_image, prev_name, prev_tile, matched, pair,
                   restarts, clicks, folder, outcome>>

(* -------------------------------- main --------------------------------- *)

\* the process before main has run: no MatchGame object exists
InitArgs ==
    /\ folder \in Folders
    /\ outcome = ""
    /\ image_names = <<>>
    /\ tags = [t \in Tiles |-> Unset]
    /\ fill = [t \in Tiles |-> ""]
    /\ images = {}
    /\ score = 0
    /\ turns = 0
    /\ remaining_tiles = 0
    /\ score_text = ScoreLabel(0)
    /\ prev_image = Unset
    /\ prev_name = Unset
    /\ prev_tile = Unset
    /\ bound = FALSE
    /\ pending = <<>>
    /\ op = "args"
    /\ raised = ""
    /\ matched = {}
    /\ pair = NoPair
    /\ restarts = 0
    /\ clicks = 0

\* lines 246-250: get_arguments, then the constructor of lines 45-93
main ==
    /\ outcome = ""
    /\ IF get_arguments(folder) # ""
       THEN /\ outcome' = get_arguments(folder)
            /\ UNCHANGED <<image_names, tags, fill, score, remaining_tiles,
                           score_text, bound, op>>
       ELSE /\ outcome' = "started"
            /\ image_names' \in Shuffles(Doubled(folder.gifs))
            /\ tags' = Assign(image_names')
            /\ fill' = [t \in Tiles |-> "yellow"]
            /\ score' = InitialScore
            /\ remaining_tiles' = NumTiles
            /\ score_text' = ScoreLabel(InitialScore)
            /\ bound' = TRUE
            /\ op' = "init"
    /\ UNCHANGED <<images, turns, prev_image, prev_name, prev_tile, pending,
                   raised, matched, pair, restarts, clicks, folder>>

(* ---------------------------- specification ---------------------------- *)

\* short games, every interleaving of clicks, RESTART and timers
Next == (turns < ShortTurns /\ play) \/ restart \/ fire

Spec == Init /\ [][Next]_vars

\* long games: the player waits for the timers before clicking and presses
\* RESTART once, not before the board could have been cleared
NextLong ==
    \/ pending = <<>> /\ play
    \/ turns >= NumTiles /\ restarts = 0 /\ restart
    \/ fire

SpecLong == Init /\ [][NextLong]_vars

\* the event loop runs every timer that is due
FairSpec == Spec /\ WF_vars(fire)

\* long games in which the player also clicks while nothing but the
\* rebinding callback of an earlier pair is pending, and presses RESTART
\* once, after the first pair
OnlyBindPending == \A k \in 1..Len(pending) : pending[k].fn = "bind"

NextOverlap ==
    \/ OnlyBindPending /\ play
    \/ turns = 2 /\ restarts = 0 /\ restart
    \/ fire

SpecOverlap == Init /\ [][NextOverlap]_vars

\* the whole run: any image_folder argument, then a short game if it starts
NextStart ==
    \/ main
    \/ outcome = "started" /\ turns < ShortTurns /\ play
    \/ outcome = "started" /\ restart
    \/ fire

SpecStart == InitArgs /\ [][NextStart]_vars

(* ------------------- C1: RESTART resets the counters ------------------- *)

\* C1: whenever the RESTART handler has run, in whatever state it was
\* pressed, score = 100, turns = 0 and remaining_tiles = 16.
C1_RestartResets ==
    op = "restart" =>
        score = InitialScore /\ turns = 0 /\ remaining_tiles = NumTiles

(* ------------- C2: remaining_tiles = 0 means all pairs matched --------- *)

\* C2: when remaining_tiles is 0, every one of the 16 tiles has been matched
\* as one of two distinct tiles of equal identity on the current board.
C2_AllPairsMatched ==
    remaining_tiles = 0 => Cardinality(matched) = NumTiles

(* -------------- C3: no input during the resolution window -------------- *)

Delayed == {k \in 1..Len(pending) : pending[k].ms = delay}

\* C3: while a delayed callback scheduled by a second click has not fired,
\* the click handler is unbound.
C3_InputDisabled == Delayed # {} => ~bound

(* --------------------------- C4: scoring rule -------------------------- *)

\* C4: the second click of pair n, counted since the last RESTART press,
\* lowers the score by exactly 10 when n > 13 and leaves it unchanged when
\* n <= 13; a first click and a delayed callback leave it unchanged.
C4_ScoreRule ==
    [][ /\ op' = "fire" => score' = score
        /\ clicks' = clicks + 1 =>
              score' = IF Whole(clicks') /\ clicks' \div 2 > FreeTurns
                       THEN score - Penalty ELSE score ]_vars

(* ----------------------- C5: score never increases ---------------------- *)

\* C5 as claimed: no transition, RESTART included, increases the score.
C5_ScoreNeverIncreases == [][score' <= score]_vars

\* C5 as amended: a tile click and a delayed callback never increase the
\* score; only a RESTART press raises it, and then to 100.
C5_OnlyRestartRaises ==
    [][score' > score => op' = "restart" /\ score' = InitialScore]_vars

C5_Charged == op = "play" /\ score < InitialScore

(* ------------------ C6: game over only at remaining 0 ------------------ *)

\* C6: whenever the label shows the "Game over" text, remaining_tiles = 0.
C6_GameOverOnlyAtZero == score_text.kind = "over" => remaining_tiles = 0

(* ---------------- C7: every identity is on exactly two tiles ----------- *)

\* C7: after construction and after every restart, each image identity on
\* the board is carried by exactly two of the 16 tiles.
C7_EachIdentityTwice ==
    \A t \in Tiles : Cardinality({u \in Tiles : tags[u] = tags[t]}) = 2

(* ----------------------- C8: no callback raises ------------------------ *)

\* C8: every callback (tile click, RESTART, delayed callback) returns
\* without raising.
C8_NoCallbackRaises == raised = ""

(* --------------------- C9: input is re-enabled ------------------------- *)

\* C9: after a second click that leaves remaining_tiles > 0, the click
\* handler is eventually bound again, given that every timer fires.
C9_InputReenabled ==
    [](op = "play" /\ Whole(turns) /\ remaining_tiles > 0 => <>bound)

(* ------------------ C10: what stays visible after a pair --------------- *)

Shown(image_id) == \E i \in images : i.id = image_id

Resolved == pair.live /\ Delayed = {}

\* C10 as claimed: once a pair is resolved, its two images are still shown
\* if the identities matched and are gone if they did not.
C10_MatchesStayRevealed ==
    Resolved => \A id \in pair.imgs : (Shown(id) <=> pair.match)

\* C10 as amended: once a pair is resolved, its two images are gone whether
\* or not the identities matched.
C10_ImagesRemoved ==
    Resolved => \A id \in pair.imgs : ~Shown(id)

C10_ResolvedMatch == Resolved /\ pair.match /\ op = "fire"

(* ----------------------- C11: folder validation ------------------------ *)

\* C11: once main has run, it ended in the usage error exactly when the
\* folder path does not exist or holds fewer than 8 .gif files, and in every
\* other case the game has started.
C11_ValidationContract ==
    outcome # "" =>
        /\ outcome = "usage" <=>
               (folder.kind = "missing" \/ folder.gifs < MinImages)
        /\ outcome # "usage" => outcome = "started"

(* ------------------- C12: recolor exactly on a match ------------------- *)

\* C12: when the last delayed callback of a pair has run, both of its
\* images are gone, both of its tiles are in the player colour if the
\* identities matched, and both have the colour they had at the second
\* click if not.
C12_RecolorIffMatched ==
    [][ pair.live /\ Delayed # {} /\ Delayed' = {} =>
          /\ \A id \in pair.imgs : \A i \in images' : i.id # id
          /\ \A t \in pair.tiles :
                fill'[t] = IF pair.match THEN color ELSE pair.before[t] ]_vars

(* ------------------- C13: the board after a RESTART -------------------- *)

\* C13: after a RESTART press and before the next tile click, once no
\* callback is pending, every tile is yellow, no image is on the canvas and
\* the click handler is bound.
C13_RestartLeavesNeutralBoard ==
    restarts > 0 /\ clicks = 0 /\ pending = <<>> =>
        /\ \A t \in Tiles : fill[t] = "yellow"
        /\ images = {}
        /\ bound

(* ------------------------ C14: the terminal state ---------------------- *)

\* a second click has brought remaining_tiles to 0 and RESTART has not been
\* pressed since
Terminal == pair.live /\ remaining_tiles = 0 /\ clicks > 0

\* C14: in the terminal state the click handler is unbound, and every step
\* but a RESTART press leaves it unbound and leaves score, turns and
\* remaining_tiles as they are.
C14_TerminalUntilRestart ==
    [][ Terminal =>
          /\ ~bound
          /\ restarts' = restarts =>
                /\ ~bound'
                /\ score' = score
                /\ turns' = turns
                /\ remaining_tiles' = remaining_tiles ]_vars

(* ------------------ C15: the range of remaining_tiles ------------------ *)

\* C15: remaining_tiles is always an even number from 0 to 16, and a step
\* changes it only by -2, on a second click whose identities match, or back
\* to 16, on a RESTART press.
C15_RemainingEvenInRange ==
    /\ [](remaining_tiles \in 0..NumTiles /\ remaining_tiles % 2 = 0)
    /\ [][ remaining_tiles' # remaining_tiles =>
             \/ op' = "play" /\ pair'.live /\ pair'.match
                   /\ remaining_tiles' = remaining_tiles - 2
             \/ op' = "restart" /\ remaining_tiles' = NumTiles ]_vars

(* ---------------- C16: the score follows the turn counter -------------- *)

Max(a, b) == IF a >= b THEN a ELSE b

\* C16: in every state score = 100 - 10 * max(0, floor(turns) - 13), the
\* state left by a callback that raised included.
C16_ScoreFromTurns ==
    score = InitialScore - Penalty * Max(0, (turns \div 2) - FreeTurns)

C16_ChargedThenAborted == raised # "" /\ score < InitialScore

(* ------------- C17: coloured tiles against remaining_tiles ------------- *)

\* C17: whenever no callback is pending, the number of tiles filled with
\* the player colour is 16 - remaining_tiles.
C17_ColouredTiles ==
    pending = <<>> =>
        Cardinality({t \in Tiles : fill[t] = color})
            = NumTiles - remaining_tiles

(* ------------- C18: the turn counter and the visible image ------------- *)

\* C18: whenever no callback is pending, a half turn is open exactly when
\* one image is on the canvas, that image being prev_image, lying on
\* prev_tile and showing prev_name; at a whole turn count no image is on
\* the canvas.
C18_HalfTurnShowsFirstTile ==
    pending = <<>> =>
        IF Whole(turns)
        THEN images = {}
        ELSE /\ images = {[id |-> prev_image, at |-> prev_tile]}
             /\ tags[prev_tile] = prev_name

=============================================================================
